---- MODULE Spec2Model ----
(***************************************************************************)
(* Model of crowdsourcing/crowdsourcing.py: the two Tomnod exporters       *)
(* (train_geojson, target_geojson) and the two geojson file operations     *)
(* (join_two_geojsons, split_geojson).                                     *)
(*                                                                         *)
(* The program keeps no state of its own; what persists between calls is   *)
(* the file system.  The state is therefore the file system, the set of    *)
(* file handles still open, and a record of the call that ran last (its    *)
(* arguments, what it read, what it opened and wrote, what it raised).     *)
(* Execution is synchronous: a behaviour is one call on any initial file   *)
(* system, or a split_geojson followed by a join_two_geojsons; prev keeps  *)
(* the record of that split.  Failures of the environment (an unwritable   *)
(* path, a dump that fails, a store that fails) are an argument of each    *)
(* action.                                                                 *)
(*                                                                         *)
(* The source is Python 2 (print statements), so round() is Python 2's     *)
(* round: exact halves go away from zero.  Floats are modelled as exact    *)
(* rationals; the ratios drawn are dyadic, for which ratio*no_features is  *)
(* computed without rounding error in binary floating point.  Scores are   *)
(* kept in hundredths (0.95 is 95).                                        *)
(***************************************************************************)
EXTENDS Integers, Sequences, FiniteSets, TLC

VARIABLES fs, handles, call, prev

vars == <<fs, handles, call, prev>>

---------------------------------------------------------------------------
(* Bounds of the model *)

\* longest feature list of a file in the initial file system of Spec
MaxLen == 2
\* longest feature list of the input file in the initial file system of SpecSplit
MaxCount == 10

Paths == {"a", "b"}

\* ratio arguments of split_geojson, as <<numerator, denominator>>
Ratios == { <<0 - 1, 2>>, <<0 - 1, 4>>, <<0, 1>>, <<1, 4>>, <<1, 2>>,
            <<3, 4>>, <<1, 1>>, <<3, 2>> }

Min(x, y) == IF x < y THEN x ELSE y
Max(x, y) == IF x > y THEN x ELSE y

---------------------------------------------------------------------------
(* The geojson object model *)

NoFile == [kind |-> "absent"]
\* a file whose text is not geojson: empty (just truncated by open(.., 'w'))
\* or cut short by a failed dump
Corrupt == [kind |-> "corrupt"]
NoCrs == "no crs"
NoCall == [op |-> "none"]

\* geojson.Polygon(coords)
Polygon(coords) == [type |-> "Polygon", coordinates |-> coords]

\* geojson.Feature(geometry=..., properties=...)
Feature(geometry, properties) ==
  [type |-> "Feature", geometry |-> geometry, properties |-> properties]

\* geojson.FeatureCollection(features): a fresh object, no other members
FeatureCollection(features) ==
  [kind |-> "geojson", type |-> "FeatureCollection", features |-> features,
   crs |-> NoCrs]

IsCollection(c) == c.kind = "geojson"

---------------------------------------------------------------------------
(* str() of a non-negative integer: its decimal digits *)

Digit(d) == CASE d = 0 -> "0" [] d = 1 -> "1" [] d = 2 -> "2" [] d = 3 -> "3"
              [] d = 4 -> "4" [] d = 5 -> "5" [] d = 6 -> "6" [] d = 7 -> "7"
              [] d = 8 -> "8" [] d = 9 -> "9"

RECURSIVE Str(_)
Str(n) == IF n < 10 THEN <<Digit(n)>> ELSE Append(Str(n \div 10), Digit(n % 10))

---------------------------------------------------------------------------
(* Files: the with-blocks of the source *)

\* a call as it starts: the files, the handles it holds, the opens and the
\* writes it has done, the queries it has sent, the exception it has raised
Start(f) == [fs |-> f, handles |-> {}, opened |-> <<>>, writes |-> <<>>,
             queries |-> 0, raised |-> "none"]

\* a with-block that leaks its handle when the body raises
WithExitLeaks(hs, h, raising) == IF raising THEN hs ELSE hs \ {h}

\* leaving "with open(...) as f": f is closed, whether the body raised or not
WithExit(hs, h, raising) == hs \ {h}

\* with open(path) as f: x = geojson.load(f)
\* open raises IOError when the file is absent; load raises ValueError when
\* the text is not geojson.  The value read is m.fs[path].
ReadFile(m, path) ==
  IF m.raised # "none" THEN m
  ELSE IF m.fs[path] = NoFile THEN [m EXCEPT !.raised = "IOError"]
  ELSE LET h == <<path, "r">>
           bad == ~IsCollection(m.fs[path])
       IN [m EXCEPT !.opened = Append(@, h),
                    !.handles = WithExit(@ \cup {h}, h, bad),
                    !.raised = IF bad THEN "ValueError" ELSE "none"]

\* with open(path, 'w') as f: geojson.dump(collection, f)
\* open raises IOError when the path cannot be written (nothing is touched);
\* once open, the file is truncated; a dump that fails leaves it cut short.
WriteFile(m, path, collection, openFails, dumpFails) ==
  IF m.raised # "none" THEN m
  ELSE IF openFails THEN [m EXCEPT !.raised = "IOError"]
  ELSE LET h == <<path, "w">>
       IN IF dumpFails
          THEN [m EXCEPT !.opened = Append(@, h),
                         !.fs = [@ EXCEPT ![path] = Corrupt],
                         !.handles = WithExit(@ \cup {h}, h, TRUE),
                         !.raised = "IOError"]
          ELSE [m EXCEPT !.opened = Append(@, h),
                         !.fs = [@ EXCEPT ![path] = collection],
                         !.writes = Append(@, <<path, collection>>),
                         !.handles = WithExit(@ \cup {h}, h, FALSE)]

---------------------------------------------------------------------------
(* Python list slicing and Python 2 round *)

\* a slice index that is cut to 0..n and never counts from the end
NormClamped(i, n) == IF i < 0 THEN 0 ELSE Min(i, n)

\* a slice index of a list of length n: negative counts from the end, then
\* the index is cut to 0..n
Norm(i, n) == IF i < 0 THEN Max(i + n, 0) ELSE Min(i, n)

\* s[i:j]
Slice(s, i, j) ==
  LET lo == Norm(i, Len(s))
      hi == Norm(j, Len(s))
  IN IF hi <= lo THEN <<>> ELSE SubSeq(s, lo + 1, hi)

\* s[i:] with the first kept element dropped
SliceFromSkips(s, i) ==
  LET lo == Norm(i, Len(s))
  IN IF lo + 1 >= Len(s) THEN <<>> ELSE SubSeq(s, lo + 2, Len(s))

\* s[i:]
SliceFrom(s, i) ==
  LET lo == Norm(i, Len(s))
  IN IF lo >= Len(s) THEN <<>> ELSE SubSeq(s, lo + 1, Len(s))

\* floor of p/q for q > 0
Floor(p, q) == IF p >= 0 THEN p \div q ELSE 0 - ((0 - p + q - 1) \div q)

\* p/q to the nearest integer, exact halves to the even neighbour (Python 3)
RoundHalfEven(p, q) ==
  LET f == Floor(p, q)
      twice == 2 * (p - f * q)
  IN IF twice < q THEN f
     ELSE IF twice > q THEN f + 1
     ELSE IF f % 2 = 0 THEN f ELSE f + 1

\* Python 2 round(p/q), q > 0: nearest integer, exact halves away from zero
Round(p, q) ==
  IF p >= 0 THEN (2 * p + q) \div (2 * q)
  ELSE 0 - ((2 * (0 - p) + q) \div (2 * q))

\* int(ratio*no_features): the fraction is dropped, no rounding
SplitIndexTruncates(ratio, no_features) ==
  LET p == ratio[1] * no_features
  IN IF p >= 0 THEN p \div ratio[2] ELSE 0 - ((0 - p) \div ratio[2])

\* int(round(ratio*no_features))
SplitIndex(ratio, no_features) == Round(ratio[1] * no_features, ratio[2])

---------------------------------------------------------------------------
(* split_geojson *)

SplitFaults == {"none", "open_1", "dump_1", "open_2", "dump_2"}

split_geojson(input_file, file_1, file_2, ratio, fault) ==
  /\ call = NoCall
  /\ LET m1 == ReadFile(Start(fs), input_file)
         loaded == m1.raised = "none"
         features == IF loaded THEN fs[input_file].features ELSE <<>>
         no_features == Len(features)
         no_features_1 == SplitIndex(ratio, no_features)
         feat_collection_1 == FeatureCollection(Slice(features, 0, no_features_1))
         feat_collection_2 == FeatureCollection(SliceFrom(features, no_features_1))
         m2 == WriteFile(m1, file_1, feat_collection_1,
                         fault = "open_1", fault = "dump_1")
         m3 == WriteFile(m2, file_2, feat_collection_2,
                         fault = "open_2", fault = "dump_2")
     IN /\ fs' = m3.fs
        /\ handles' = m3.handles
        /\ call' = [op |-> "split_geojson", input_file |-> input_file,
                    file_1 |-> file_1, file_2 |-> file_2, ratio |-> ratio,
                    fault |-> fault, loaded |-> loaded, features |-> features,
                    no_features_1 |-> no_features_1,
                    opened |-> m3.opened, writes |-> m3.writes,
                    raised |-> m3.raised]
        /\ prev' = NoCall

---------------------------------------------------------------------------
(* join_two_geojsons *)

JoinFaults == {"none", "open_out", "dump_out"}

\* the two lists the other way round
JoinFeaturesSwapped(c1, c2) == c2.features \o c1.features

\* feat_collection_1['features'] + feat_collection_2['features']
JoinFeatures(c1, c2) == c1.features \o c2.features

\* feat_collection_1['features'] = feat_final
JoinCollection(c1, c2, feat_final) == [c1 EXCEPT !.features = feat_final]

\* enabled when no call has run yet, or right after a split_geojson that
\* returned: the caller's split-then-join pipeline
join_two_geojsons(file_1, file_2, output_file, fault) ==
  /\ \/ call = NoCall
     \/ call.op = "split_geojson" /\ call.raised = "none"
  /\ LET m1 == ReadFile(Start(fs), file_1)
         m2 == ReadFile(m1, file_2)
         loaded == m2.raised = "none"
         feat_collection_1 == fs[file_1]
         feat_collection_2 == fs[file_2]
         feat_final == IF loaded
                       THEN JoinFeatures(feat_collection_1, feat_collection_2)
                       ELSE <<>>
         joined == IF loaded
                   THEN JoinCollection(feat_collection_1, feat_collection_2,
                                       feat_final)
                   ELSE NoFile
         m3 == WriteFile(m2, output_file, joined,
                         fault = "open_out", fault = "dump_out")
     IN /\ fs' = m3.fs
        /\ handles' = m3.handles
        /\ call' = [op |-> "join_two_geojsons", file_1 |-> file_1,
                    file_2 |-> file_2, output_file |-> output_file,
                    fault |-> fault, loaded |-> loaded,
                    in_1 |-> feat_collection_1, in_2 |-> feat_collection_2,
                    opened |-> m3.opened, writes |-> m3.writes,
                    raised |-> m3.raised]
        /\ prev' = call

---------------------------------------------------------------------------
(* The Tomnod store: the {schema}.feature table joined with tag_type and    *)
(* overlay, one record per feature.  feature is the hex well-known-binary   *)
(* polygon: its rings, exterior first, or text that does not decode.        *)

\* the NULL of SQL: no score is negative
Null == 0 - 1
MinScoreDefault == 95
MinVotesDefault == 0
MaxScoreDefault == 100
MaxVotesDefault == 0

\* largest max_number argument drawn
MaxNumber == 2

Schemas == {"campaign"}
CatIds == {"cat1", "cat2"}
ClassNames == {"building", "road"}

Square(x) == << <<x, 0>>, <<x + 1, 0>>, <<x + 1, 1>>, <<x, 1>>, <<x, 0>> >>
Hole(x) == << <<x, 0>>, <<x + 1, 0>>, <<x, 1>>, <<x, 0>> >>
Wkb(rings) == [wkb |-> "polygon", rings |-> rings]
Malformed == [wkb |-> "malformed"]

Row(id, catalogid, name, score, votes, feature) ==
  [id |-> id, catalogid |-> catalogid, name |-> name, score |-> score,
   num_votes_total |-> votes, feature |-> feature]

Table(schema) ==
  << Row(7, "cat1", "building", 99, 3, Wkb(<<Square(10)>>)),
     Row(12, "cat1", "building", 99, 1, Wkb(<<Square(20), Hole(20)>>)),
     Row(3, "cat1", "building", 97, 5, Malformed),
     Row(15, "cat1", "building", Null, 0, Wkb(<<Square(30)>>)),
     Row(20, "cat1", "road", 96, 2, Wkb(<<Square(40)>>)),
     Row(108, "cat2", "road", 98, 0, Wkb(<<Square(50)>>)) >>

RECURSIVE Arrangements(_, _)
\* the sequences of k distinct elements of S
Arrangements(S, k) ==
  IF k = 0 THEN {<<>>}
  ELSE UNION {{<<x>> \o t : t \in Arrangements(S \ {x}, k - 1)} : x \in S}

\* a comparison with NULL is not true in SQL
SqlGeq(x, y) == x # Null /\ y # Null /\ x >= y

\* the SQL text of train_geojson, by its parts
TrainQuery(schema, cat_id, class_name, min_score, min_votes, max_number) ==
  [schema |-> schema, catalogid |-> cat_id, name |-> class_name,
   min_score |-> min_score, min_votes |-> min_votes, limit |-> max_number]

\* the rows of the table the WHERE clause of the training query keeps
TrainMatches(q) ==
  {i \in DOMAIN Table(q.schema) :
     LET r == Table(q.schema)[i]
     IN /\ r.catalogid = q.catalogid
        /\ r.name = q.name
        /\ SqlGeq(r.score, q.min_score)
        /\ SqlGeq(r.num_votes_total, q.min_votes)}

\* ORDER BY feature.score DESC LIMIT n: every answer the store may give (the
\* order among equal scores is the store's choice), as row numbers
TrainAnswers(q) ==
  LET T == Table(q.schema)
      M == TrainMatches(q)
      k == Min(q.limit, Cardinality(M))
  IN {a \in Arrangements(M, k) :
        /\ \A i \in 1..k, j \in 1..k : i < j => T[a[i]].score >= T[a[j]].score
        /\ \A i \in 1..k, r \in M :
             (\A j \in 1..k : a[j] # r) => T[a[i]].score >= T[r].score}

\* shapely.wkb.loads(coords_in_hex, hex=True) succeeds
Decodes(coords_in_hex) == coords_in_hex.wkb = "polygon"

\* [list(polygon.exterior.coords)]
ExteriorCoords(coords_in_hex) == << coords_in_hex.rings[1] >>

\* every ring of the polygon, holes included
AllCoords(coords_in_hex) == coords_in_hex.rings

\* a Feature whose coordinates hold every ring of the polygon
ExportFeatureAllRings(feature_id, coords_in_hex, class_name, cat_id) ==
  Feature(Polygon(AllCoords(coords_in_hex)),
          [id |-> Str(feature_id), class_name |-> class_name,
           image_name |-> cat_id])

\* the geojson.Feature built in the body of the conversion loop
ExportFeature(feature_id, coords_in_hex, class_name, cat_id) ==
  Feature(Polygon(ExteriorCoords(coords_in_hex)),
          [id |-> Str(feature_id), class_name |-> class_name,
           image_name |-> cat_id])

RECURSIVE ConvertFrom(_, _, _)
\* the conversion loop from entry i on, acc being what is converted so far;
\* an entry is <<feature_id, coords_in_hex, class_name>>
ConvertFrom(data, i, acc) ==
  IF i > Len(data) THEN [features |-> acc, raised |-> "none"]
  ELSE IF ~Decodes(data[i][2])
       THEN [features |-> acc, raised |-> "WKBReadingError"]
       ELSE ConvertFrom(data, i + 1,
              Append(acc, ExportFeature(data[i][1], data[i][2], data[i][3],
                                        data[i][4])))

\* a loop that puts each new feature in front of the list
ConvertPrepending(data) ==
  LET c == ConvertFrom(data, 1, <<>>)
  IN [c EXCEPT !.features = [i \in 1..Len(@) |-> @[Len(@) + 1 - i]]]

\* geojson_features = []; for entry in data: ... append(geojson_feature)
Convert(data) == ConvertFrom(data, 1, <<>>)

ExportFaults == {"none", "db", "open_out", "dump_out"}

\* an exporter that opens output_file before it converts the rows
StoreWhileConverting(m, conv, output_file, openFails, dumpFails) ==
  IF m.raised # "none" THEN m
  ELSE IF conv.raised # "none"
       THEN LET w == WriteFile(m, output_file, NoFile, openFails, TRUE)
            IN [w EXCEPT !.raised = IF openFails THEN "IOError" ELSE conv.raised]
       ELSE WriteFile(m, output_file, FeatureCollection(conv.features),
                      openFails, dumpFails)

\* the tail of both exporters: the conversion has run to its end or raised;
\* only then is the collection built and output_file opened and written
Store(m, conv, output_file, openFails, dumpFails) ==
  IF m.raised # "none" THEN m
  ELSE IF conv.raised # "none" THEN [m EXCEPT !.raised = conv.raised]
  ELSE WriteFile(m, output_file, FeatureCollection(conv.features),
                 openFails, dumpFails)

\* DB.db_fetch_array(query): one call; it raises when the store fails
Fetch(m, dbFails) ==
  IF m.raised # "none" THEN m
  ELSE IF dbFails THEN [m EXCEPT !.queries = @ + 1, !.raised = "DBError"]
  ELSE [m EXCEPT !.queries = @ + 1]

---------------------------------------------------------------------------
(* train_geojson *)

train_geojson(schema, cat_id, max_number, output_file, class_name, min_score, min_votes, fault) ==
  /\ call = NoCall
  /\ LET query == TrainQuery(schema, cat_id, class_name, min_score, min_votes,
                             max_number)
         m1 == Fetch(Start(fs), fault = "db")
         fetched == m1.raised = "none"
     IN \E answer \in TrainAnswers(query) :
          LET rows == IF fetched THEN answer ELSE <<>>
              T == Table(schema)
              \* (feature.id, feature.feature) of each row; the class name
              \* and the image name are the arguments of the call
              data == [i \in 1..Len(rows) |->
                         <<T[rows[i]].id, T[rows[i]].feature, class_name, cat_id>>]
              conv == Convert(data)
              m2 == Store(m1, conv, output_file,
                          fault = "open_out", fault = "dump_out")
          IN /\ fs' = m2.fs
             /\ handles' = m2.handles
             /\ call' = [op |-> "train_geojson", schema |-> schema,
                         cat_id |-> cat_id, max_number |-> max_number,
                         output_file |-> output_file, class_name |-> class_name,
                         min_score |-> min_score, min_votes |-> min_votes,
                         fault |-> fault, queries |-> m2.queries,
                         fetched |-> fetched,
                         rows |-> rows, before |-> fs[output_file],
                         opened |-> m2.opened, writes |-> m2.writes,
                         raised |-> m2.raised]
             /\ prev' = NoCall

---------------------------------------------------------------------------
(* target_geojson *)

\* the names bound in the body of target_geojson: its parameters
TargetLocals == {"schema", "cat_id", "max_number", "output_file",
                 "max_score", "max_votes"}

\* the names bound at module level
ModuleGlobals == {"geojson", "loads", "DB", "train_geojson", "target_geojson",
                  "join_two_geojsons", "split_geojson"}

\* the arguments of .format(...) in target_geojson, in order
TargetFormatArgs == <<"schema", "cat_id", "min_score", "max_score", "max_number">>

\* the {} fields of the query text of target_geojson, in order
TargetFormatFields == <<"FROM {}.feature", "AND {}.feature", "catalogid = '{}'",
                        "score <= {}", "num_votes_total <= {}", "LIMIT {}">>

\* building the query: every argument is evaluated first (an unbound name
\* raises NameError), then format fills the fields (IndexError when the
\* fields outnumber the arguments)
TargetQueryRaises ==
  IF \E i \in DOMAIN TargetFormatArgs :
       TargetFormatArgs[i] \notin TargetLocals \cup ModuleGlobals
  THEN "NameError"
  ELSE IF Len(TargetFormatFields) > Len(TargetFormatArgs) THEN "IndexError"
  ELSE "none"

\* how .format would fill the fields: by position, the i-th field from the
\* i-th argument (catalogid from min_score, num_votes_total from max_number;
\* max_votes is passed nowhere and LIMIT {} has no argument)
TargetBinding ==
  [i \in 1..Min(Len(TargetFormatFields), Len(TargetFormatArgs)) |->
     <<TargetFormatFields[i], TargetFormatArgs[i]>>]

\* the terms of the WHERE clause of the query text, in order, each with
\* whether it is an SQL condition; "{}.feature, overlay" is a table list
TargetWhereClause ==
  << [text |-> "feature.type_id = tag_type.id", condition |-> TRUE],
     [text |-> "{}.feature, overlay", condition |-> FALSE],
     [text |-> "feature.overlay_id = overlay.id", condition |-> TRUE],
     [text |-> "overlay.catalogid = '{}'", condition |-> TRUE],
     [text |-> "feature.score <= {}", condition |-> TRUE],
     [text |-> "feature.num_votes_total <= {}", condition |-> TRUE] >>

\* the store rejects the statement as written, whatever fills its fields
TargetStatementRejected ==
  \E i \in DOMAIN TargetWhereClause : ~TargetWhereClause[i].condition

target_geojson(schema, cat_id, max_number, output_file, max_score, max_votes, fault) ==
  /\ call = NoCall
  /\ LET m0 == [Start(fs) EXCEPT !.raised = TargetQueryRaises]
         m1 == Fetch(m0, fault = "db" \/ TargetStatementRejected)
         fetched == m1.raised = "none"
     IN \E answer \in {<<>>} :
          \* no answer holds a row: the query is never built, and the store
          \* would reject its text
          LET rows == answer
              T == Table(schema)
              \* (feature.id, feature.feature, tag_type.name) of each row
              data == [i \in 1..Len(rows) |->
                         <<T[rows[i]].id, T[rows[i]].feature, T[rows[i]].name,
                           cat_id>>]
              conv == Convert(data)
              m2 == Store(m1, conv, output_file,
                          fault = "open_out", fault = "dump_out")
          IN /\ fs' = m2.fs
             /\ handles' = m2.handles
             /\ call' = [op |-> "target_geojson", schema |-> schema,
                         cat_id |-> cat_id, max_number |-> max_number,
                         output_file |-> output_file, max_score |-> max_score,
                         max_votes |-> max_votes, fault |-> fault,
                         queries |-> m2.queries, fetched |-> fetched,
                         rows |-> rows, before |-> fs[output_file],
                         opened |-> m2.opened, writes |-> m2.writes,
                         raised |-> m2.raised]
             /\ prev' = NoCall

---------------------------------------------------------------------------
(* Initial file systems *)

\* the feature an exporter writes for row id i of image "cat1"
SampleFeature(i) ==
  ExportFeature(i, Wkb(<<Square(i)>>), "building", "cat1")

RECURSIVE SeqsUpTo(_, _)
SeqsUpTo(S, n) ==
  IF n = 0 THEN {<<>>}
  ELSE LET shorter == SeqsUpTo(S, n - 1)
       IN shorter \cup {Append(s, x) : s \in {t \in shorter : Len(t) = n - 1}, x \in S}

\* what a file may hold at the start: nothing, text that is not geojson, or
\* a collection of up to MaxLen features carrying the crs of its source
InitialContents(crs) ==
  {NoFile, Corrupt} \cup
  {[FeatureCollection(s) EXCEPT !.crs = crs] :
     s \in SeqsUpTo({SampleFeature(1), SampleFeature(2)}, MaxLen)}

Init ==
  /\ fs \in {f \in [Paths -> InitialContents("crs A") \cup InitialContents("crs B")] :
               /\ f["a"] \in InitialContents("crs A")
               /\ f["b"] \in InitialContents("crs B")}
  /\ handles = {}
  /\ call = NoCall
  /\ prev = NoCall

Next ==
  \/ \E schema \in Schemas, cat_id \in CatIds, max_number \in 0..MaxNumber,
        output_file \in Paths, class_name \in ClassNames,
        min_score \in {MinScoreDefault, 98}, min_votes \in {MinVotesDefault, 2, 4},
        fault \in ExportFaults :
       train_geojson(schema, cat_id, max_number, output_file, class_name,
                     min_score, min_votes, fault)
  \/ \E schema \in Schemas, cat_id \in CatIds, max_number \in 0..MaxNumber,
        output_file \in Paths, max_score \in {MaxScoreDefault, 50},
        max_votes \in {MaxVotesDefault, 3}, fault \in ExportFaults :
       target_geojson(schema, cat_id, max_number, output_file, max_score,
                      max_votes, fault)
  \/ \E input_file \in Paths, file_1 \in Paths, file_2 \in Paths,
        ratio \in Ratios, fault \in SplitFaults :
       split_geojson(input_file, file_1, file_2, ratio, fault)
  \/ \E file_1 \in Paths, file_2 \in Paths, output_file \in Paths,
        fault \in JoinFaults :
       join_two_geojsons(file_1, file_2, output_file, fault)

Spec == Init /\ [][Next]_vars

\* split_geojson alone, on inputs of up to MaxCount distinct features
InitSplit ==
  /\ \E n \in 0..MaxCount :
       fs = [p \in Paths |->
               IF p = "a"
               THEN [FeatureCollection([i \in 1..n |-> SampleFeature(i)])
                       EXCEPT !.crs = "crs A"]
               ELSE NoFile]
  /\ handles = {}
  /\ call = NoCall
  /\ prev = NoCall

NextSplit ==
  \E input_file \in Paths, file_1 \in Paths, file_2 \in Paths,
     ratio \in Ratios, fault \in SplitFaults :
    split_geojson(input_file, file_1, file_2, ratio, fault)

SpecSplit == InitSplit /\ [][NextSplit]_vars

---------------------------------------------------------------------------
(* Properties *)

Abs(x) == IF x < 0 THEN 0 - x ELSE x
Exporters == {"train_geojson", "target_geojson"}
Returned(op) == call.op = op /\ call.raised = "none"
\* the features the call wrote with its i-th write
Written(i) == call.writes[i][2].features
\* the rows of an answer, as the store holds them
RowOf(i) == Table(call.schema)[call.rows[i]]

\* C1: a split_geojson call with a ratio in [0,1] that returns has written F1
\* to file_1 and then F2 to file_2 such that F1 followed by F2 is the input's
\* feature list in its order, and the length of F1 is ratio * len(F) rounded
\* to a nearest integer; 4 features at ratio 0.25 give the first feature
\* alone in F1 and the other 3 in F2.
C1_SplitIsLosslessPartition ==
  (/\ Returned("split_geojson")
   /\ 0 <= call.ratio[1] /\ call.ratio[1] <= call.ratio[2]) =>
    LET F == call.features
        n == Len(F)
    IN /\ Len(call.writes) = 2
       /\ call.writes[1][1] = call.file_1
       /\ call.writes[2][1] = call.file_2
       /\ Written(1) \o Written(2) = F
       /\ 2 * Abs(Len(Written(1)) * call.ratio[2] - call.ratio[1] * n)
            <= call.ratio[2]
       /\ (n = 4 /\ call.ratio = <<1, 4>>) =>
            (Written(1) = <<F[1]>> /\ Len(Written(2)) = 3)
       /\ fs[call.file_2].features = Written(2)
       /\ call.file_1 # call.file_2 => fs[call.file_1].features = Written(1)

C1_Witness ==
  /\ Returned("split_geojson")
  /\ call.ratio = <<1, 4>>
  /\ Len(call.features) = 4
  /\ call.file_1 # call.file_2
  /\ Len(fs[call.file_1].features) = 1
  /\ Len(fs[call.file_2].features) = 3

\* C2: a join_two_geojsons call that returns has written to output_file, once,
\* a collection whose features are file_1's followed by file_2's, nothing
\* reordered, merged or dropped, and whose other members (type, crs) are
\* those of file_1's collection.
C2_JoinConcatenates ==
  Returned("join_two_geojsons") =>
    LET out == fs[call.output_file]
    IN /\ call.writes = << <<call.output_file, out>> >>
       /\ Len(out.features) = Len(call.in_1.features) + Len(call.in_2.features)
       /\ \A i \in 1..Len(call.in_1.features) :
            out.features[i] = call.in_1.features[i]
       /\ \A i \in 1..Len(call.in_2.features) :
            out.features[Len(call.in_1.features) + i] = call.in_2.features[i]
       /\ out.crs = call.in_1.crs
       /\ out.type = call.in_1.type

C2_Witness ==
  /\ Returned("join_two_geojsons")
  /\ prev = NoCall
  /\ call.file_1 # call.file_2
  /\ call.in_1.crs # call.in_2.crs
  /\ Len(call.in_1.features) = 2
  /\ call.in_1.features[1] # call.in_1.features[2]
  /\ Len(call.in_2.features) = 1
  /\ call.in_2.features[1] = call.in_1.features[1]
  /\ Len(fs[call.output_file].features) = 3

\* C3: when split_geojson(F, out1, out2, r) has returned, for any ratio r
\* drawn (in [0,1] or not) and two distinct output files, and
\* join_two_geojsons(out1, out2, out) then returns, the file out holds F's
\* feature list exactly.
C3_SplitThenJoin ==
  (/\ Returned("join_two_geojsons")
   /\ prev.op = "split_geojson"
   /\ prev.file_1 # prev.file_2
   /\ call.file_1 = prev.file_1
   /\ call.file_2 = prev.file_2) =>
    fs[call.output_file].features = prev.features

C3_Witness ==
  /\ Returned("join_two_geojsons")
  /\ prev.op = "split_geojson"
  /\ prev.file_1 # prev.file_2
  /\ call.file_1 = prev.file_1
  /\ call.file_2 = prev.file_2
  /\ prev.ratio = <<1, 2>>
  /\ Len(prev.features) = 2
  /\ prev.features[1] # prev.features[2]
  /\ Len(call.in_1.features) = 1
  /\ fs[call.output_file].features = prev.features

\* C4 (as claimed): a target_geojson call on valid arguments, with the store
\* and the file system working, issues its query and, unless a geometry
\* fails to decode, writes to output_file one Feature per row returned, in
\* the order of the rows (unscored first, then by rising score), at most
\* max_number of them, each with the class name of its own row.
C4_TargetExports ==
  (call.op = "target_geojson" /\ call.fault = "none") =>
    /\ call.queries = 1
    /\ call.raised \in {"none", "WKBReadingError"}
    /\ call.raised = "none" =>
         /\ Len(call.writes) = 1
         /\ call.writes[1][1] = call.output_file
         /\ Len(Written(1)) = Len(call.rows)
         /\ Len(Written(1)) <= call.max_number
         /\ \A i \in 1..Len(call.rows) :
              Written(1)[i].properties.class_name = RowOf(i).name
         /\ \A i \in 1..Len(call.rows), j \in 1..Len(call.rows) :
              i < j => (RowOf(i).score = Null \/
                        (RowOf(j).score # Null /\ RowOf(i).score <= RowOf(j).score))

\* C5: a train_geojson call that returns has written to output_file exactly
\* one Feature per row of the answer, the i-th Feature made from the i-th
\* row; the rows are distinct, in non-increasing score, and at most
\* max_number.
C5_TrainOneFeaturePerRow ==
  Returned("train_geojson") =>
    /\ call.writes = << <<call.output_file, fs[call.output_file]>> >>
    /\ Len(Written(1)) = Len(call.rows)
    /\ Len(Written(1)) <= call.max_number
    /\ \A i \in 1..Len(call.rows) :
         /\ Written(1)[i].properties.id = Str(RowOf(i).id)
         /\ Written(1)[i].geometry.coordinates[1] = RowOf(i).feature.rings[1]
    /\ \A i \in 1..Len(call.rows), j \in 1..Len(call.rows) :
         i < j => (call.rows[i] # call.rows[j] /\ RowOf(i).score >= RowOf(j).score)

C5_Witness ==
  /\ Returned("train_geojson")
  /\ Len(call.rows) = 2
  /\ call.max_number = 2
  /\ Len(fs[call.output_file].features) = 2
  /\ fs[call.output_file].features[1] # fs[call.output_file].features[2]

\* C6: every Feature an exporter writes has exactly the properties id,
\* class_name and image_name; id is the decimal string of the row's
\* identifier, image_name is the cat_id argument and, for train_geojson,
\* class_name is the class_name argument; its geometry is a Polygon whose
\* coordinates are one ring, the exterior ring of the row's polygon.
C6_FeatureShape ==
  call.op \in Exporters =>
    \A w \in 1..Len(call.writes) :
      /\ Len(Written(w)) = Len(call.rows)
      /\ \A i \in 1..Len(Written(w)) :
           LET f == Written(w)[i]
           IN /\ DOMAIN f.properties = {"id", "class_name", "image_name"}
              /\ f.properties.id = Str(RowOf(i).id)
              /\ f.properties.id \in Seq({"0", "1", "2", "3", "4", "5", "6",
                                          "7", "8", "9"})
              /\ f.properties.image_name = call.cat_id
              /\ call.op = "train_geojson" =>
                   f.properties.class_name = call.class_name
              /\ f.geometry.type = "Polygon"
              /\ Len(f.geometry.coordinates) = 1
              /\ f.geometry.coordinates[1] = RowOf(i).feature.rings[1]

C6_Witness ==
  /\ Returned("train_geojson")
  /\ Len(call.writes) = 1
  /\ \E i \in 1..Len(call.rows) :
       /\ Len(RowOf(i).feature.rings) = 2
       /\ RowOf(i).id = 12
       /\ Written(1)[i].properties.id = <<"1", "2">>
       /\ Len(Written(1)[i].geometry.coordinates) = 1

\* C7: an exporter whose query fails, or that is handed a row whose geometry
\* does not decode (first or later in the answer), raises that error, has
\* asked the store at most once, and has opened and written no file: every
\* file is as it was before the call.  Whenever an exporter has opened
\* output_file, every row of the answer had been converted.
C7_NoPartialOutput ==
  call.op \in Exporters =>
    /\ (call.op = "train_geojson" /\ call.fault = "db") =>
         (call.raised = "DBError" /\ call.queries = 1)
    /\ (\E i \in 1..Len(call.rows) : ~Decodes(RowOf(i).feature)) =>
         call.raised = "WKBReadingError"
    /\ call.raised \in {"DBError", "WKBReadingError"} =>
         /\ call.opened = <<>>
         /\ call.writes = <<>>
         /\ fs[call.output_file] = call.before
         /\ call.queries <= 1
    /\ call.opened # <<>> =>
         \A i \in 1..Len(call.rows) : Decodes(RowOf(i).feature)

C7_Witness ==
  /\ call.op = "train_geojson"
  /\ call.raised = "WKBReadingError"
  /\ Len(call.rows) = 2
  /\ Decodes(RowOf(1).feature)
  /\ ~Decodes(RowOf(2).feature)
  /\ IsCollection(call.before)
  /\ Len(call.before.features) = 2
  /\ fs[call.output_file] = call.before

\* C8 (as claimed): a split_geojson call with a ratio outside [0,1] raises
\* nothing and clamps the split index to 0..count: a ratio below 0 gives an
\* empty output 1 and the full list in output 2, a ratio above 1 the full
\* list in output 1 and an empty output 2.
C8_OutOfRangeIsClamped ==
  (/\ call.op = "split_geojson" /\ call.loaded /\ call.fault = "none"
   /\ (call.ratio[1] < 0 \/ call.ratio[1] > call.ratio[2])) =>
    /\ call.raised = "none"
    /\ call.ratio[1] < 0 =>
         (Written(1) = <<>> /\ Written(2) = call.features)
    /\ call.ratio[1] > call.ratio[2] =>
         (Written(1) = call.features /\ Written(2) = <<>>)

\* C8 (amended): a split_geojson call with a ratio outside [0,1] raises
\* nothing.  A ratio above 1 gives the full list in output 1 and an empty
\* output 2.  A ratio below 0 gives an index k = round(ratio * count) that is
\* not clamped to 0: when k < 0 it counts from the end of the list, so
\* output 1 holds the first max(count + k, 0) features and output 2 the
\* others; output 1 is empty only when k = 0 or -k >= count.
C8_OutOfRangeFollowsSlicing ==
  (/\ call.op = "split_geojson" /\ call.loaded /\ call.fault = "none"
   /\ (call.ratio[1] < 0 \/ call.ratio[1] > call.ratio[2])) =>
    LET F == call.features
        n == Len(F)
        k == call.no_features_1
        cut == IF k < 0 THEN Max(n + k, 0) ELSE 0
    IN /\ call.raised = "none"
       /\ call.ratio[1] > call.ratio[2] =>
            (Written(1) = F /\ Written(2) = <<>>)
       /\ call.ratio[1] < 0 =>
            /\ k <= 0
            /\ Written(1) = SubSeq(F, 1, cut)
            /\ Written(2) = SubSeq(F, cut + 1, n)
            /\ (Written(1) = <<>>) <=> (k = 0 \/ 0 - k >= n)

C8_Witness ==
  /\ Returned("split_geojson")
  /\ call.ratio = <<0 - 1, 2>>
  /\ Len(call.features) = 4
  /\ call.no_features_1 = 0 - 2
  /\ Len(Written(1)) = 2
  /\ Len(Written(2)) = 2

\* C9: when a call of any of the four operations has returned or raised, no
\* file handle it opened is still open.
C9_HandlesReleased ==
  call.op # "none" => handles = {}

C9_Witness ==
  /\ call.op = "join_two_geojsons"
  /\ call.raised = "ValueError"
  /\ Len(call.opened) = 2
  /\ handles = {}

\* C10: the split index is ratio * count rounded to a nearest integer, an
\* exact half going away from zero: 2 features at ratio 0.25 give index 1 and
\* 10 features at ratio 0.25 give index 3; with an index within 0..count the
\* first output holds that many features.
C10_RoundsHalfAwayFromZero ==
  (call.op = "split_geojson" /\ call.loaded) =>
    LET n == Len(call.features)
        p == call.ratio[1] * n
        q == call.ratio[2]
        k == call.no_features_1
    IN /\ 2 * Abs(k * q - p) <= q
       /\ 2 * Abs(k * q - p) = q => Abs(k * q) > Abs(p)
       /\ (n = 2 /\ call.ratio = <<1, 4>>) => k = 1
       /\ (n = 10 /\ call.ratio = <<1, 4>>) => k = 3
       /\ (call.raised = "none" /\ 0 <= k /\ k <= n) => Len(Written(1)) = k

C10_Witness ==
  /\ Returned("split_geojson")
  /\ Len(call.features) = 10
  /\ call.ratio = <<1, 4>>
  /\ call.no_features_1 = 3
  /\ Len(Written(1)) = 3

====
